---- MODULE Spec2Model ----
(***************************************************************************)
(* Model of the sample item API (src/src/api/index.ts), its logger         *)
(* (src/src/utils/logger.ts) and its typed error                           *)
(* (src/src/errors/ValidationError.ts).                                    *)
(*                                                                         *)
(* Strings are sequences of runs of one character, so that trim() and      *)
(* .length are computed, not assumed.  A JavaScript object with optional   *)
(* keys is a function whose DOMAIN is the set of keys that are present.    *)
(***************************************************************************)
EXTENDS Integers, Sequences, FiniteSets, TLC

\* ------------------------------------------------------------------------
\* Bounds of the model
\* ------------------------------------------------------------------------
MaxIds == 2
MaxClock == 1

\* ------------------------------------------------------------------------
\* Program constants
\* ------------------------------------------------------------------------
MaxNameLength == 100

MsgBodyRequired == "Request body is required."
MsgNameRequired == "Item name is required."
MsgNameTooLong == "Item name must not exceed 100 characters."

\* ------------------------------------------------------------------------
\* Strings
\* ------------------------------------------------------------------------
\* A string is kept run-length encoded: a sequence of runs [c, n], "the
\* character c, n times" (n >= 1, neighbouring runs of different characters),
\* so that a name of 101 characters is a small value.  Run("a", 3) is "aaa".
Run(c, n) == [c |-> c, n |-> n]

\* "" + c.repeat(n)
Rep(c, n) == IF n = 0 THEN <<>> ELSE <<Run(c, n)>>

\* s + t
Concat(s, t) ==
  IF s = <<>> THEN t
  ELSE IF t = <<>> THEN s
  ELSE IF s[Len(s)].c = t[1].c
    THEN SubSeq(s, 1, Len(s) - 1) \o <<Run(t[1].c, s[Len(s)].n + t[1].n)>> \o Tail(t)
    ELSE s \o t

\* s.length
RECURSIVE Length(_)
Length(s) == IF s = <<>> THEN 0 ELSE Head(s).n + Length(Tail(s))

\* Characters String.prototype.trim() strips (representatives of the
\* ECMAScript WhiteSpace and LineTerminator classes).
WhiteSpace == {" ", "\t", "\n"}

RECURSIVE trimStart(_)
trimStart(s) ==
  IF s = <<>> THEN s
  ELSE IF Head(s).c \in WhiteSpace THEN trimStart(Tail(s)) ELSE s

RECURSIVE trimEnd(_)
trimEnd(s) ==
  IF s = <<>> THEN s
  ELSE IF s[Len(s)].c \in WhiteSpace THEN trimEnd(SubSeq(s, 1, Len(s) - 1)) ELSE s

\* a trim that forgets the end of the string
trimLeadingOnly(s) == trimStart(s)

\* s.trim()
trim(s) == trimEnd(trimStart(s))

\* ------------------------------------------------------------------------
\* Values at the boundary: handleCreateItem(body)
\* ------------------------------------------------------------------------
Undefined == [t |-> "undefined"]
Null == [t |-> "null"]
Num(n) == [t |-> "number", v |-> n]
Str(s) == [t |-> "string", v |-> s]
Obj(name) == [t |-> "object", name |-> name]

\* JavaScript truthiness of a boundary value (the ! operator, negated)
Truthy(x) ==
  CASE x.t = "undefined" -> FALSE
    [] x.t = "null" -> FALSE
    [] x.t = "number" -> x.v # 0
    [] x.t = "string" -> Length(x.v) > 0
    [] OTHER -> TRUE

\* Inputs: every core under every padding.  The cores sit on both sides of
\* the two limits of the name, and the longer ones hold whitespace inside; the
\* paddings are none, leading only, trailing only and both.
Blank == Rep(" ", 1)
TabLines == Concat(Rep("\t", 1), Rep("\n", 2))
Paddings == {<<<<>>, <<>>>>, <<Blank, <<>>>>, <<<<>>, TabLines>>, <<TabLines, Blank>>}
CoreLens == {0, 1, MaxNameLength, MaxNameLength + 1}

Core(n) ==
  IF n < 3 THEN Rep("a", n)
  ELSE Concat(Rep("a", 1), Concat(Rep(" ", 1), Rep("b", n - 2)))

NameStrings == {Concat(p[1], Concat(Core(n), p[2])) : p \in Paddings, n \in CoreLens}

NameValues == {Undefined, Null, Num(0), Num(123)} \cup {Str(s) : s \in NameStrings}

Bodies == {Undefined, Null} \cup {Obj(n) : n \in NameValues}

Ids == 1..MaxIds
Times == 0..MaxClock

VARIABLES
  items,      \* the Map<string, Item> of line 42, as its entries in insertion order
  stdout,     \* lines written to process.stdout
  stderr,     \* lines written to process.stderr
  now,        \* the clock when the next handler is entered
  issued,     \* ids crypto.randomUUID() has returned so far
  lastOp,     \* the handler called last
  lastBody,   \* its argument
  response,   \* what it returned (or the fault it raised)
  err,        \* the ValidationError it constructed, if any
  rules,      \* the validation rules it evaluated, in order
  returned,   \* history: the ids successful handleCreateItem calls returned, in order
  live,       \* history: the items they returned since the last clearItems
  listed      \* history: what handleGetItems returned last, if nothing was
              \* created or cleared since

vars ==
  <<items, stdout, stderr, now, issued, lastOp, lastBody, response, err, rules,
    returned, live, listed>>

None == [t |-> "none"]

\* ------------------------------------------------------------------------
\* src/errors/ValidationError.ts
\* ------------------------------------------------------------------------
\* super(field) for super(message)
ValidationErrorSuperField(message, field) ==
  [name |-> "ValidationError", message |-> field, field |-> field]

ValidationError(message, field) ==
  [name |-> "ValidationError", message |-> message, field |-> field]

\* A parameter of a call: undefined when the argument was left out
\* (field?: string, line 34)
ParamOrNull(args, i) == IF i <= Len(args) THEN args[i] ELSE Null

Param(args, i) == IF i <= Len(args) THEN args[i] ELSE Undefined

\* new ValidationError(...args)
newValidationError(args) == ValidationError(Param(args, 1), Param(args, 2))

\* ------------------------------------------------------------------------
\* src/utils/logger.ts
\* ------------------------------------------------------------------------
Lit(s) == [t |-> "string", v |-> s]
toISOString(ms) == [t |-> "isodate", ms |-> ms]

\* JSON.stringify of an object: the keys whose value is undefined are dropped
JSONstringify(o) ==
  LET kept == {k \in DOMAIN o : o[k].t # "undefined"}
  IN [json |-> [k \in kept |-> o[k]]]

\* {}
EmptyObject == [k \in {} |-> Undefined]

\* line 31: meta ?? {}
OrEmpty(meta) == IF meta = Undefined \/ meta = Null THEN EmptyObject ELSE meta

\* The object literal of lines 27-32: the keys of meta are spread last
LogEntry(level, message, ms, meta) ==
  OrEmpty(meta)
    @@ [level |-> Lit(level), message |-> Lit(message), timestamp |-> toISOString(ms)]

\* a writeLog that sends every level to stdout
writeLogAllStdout(level, message, meta, ms, out, errs) ==
  [stdout |-> Append(out, JSONstringify(LogEntry(level, message, ms, meta))),
   stderr |-> errs]

writeLog(level, message, meta, ms, out, errs) ==
  LET entry == JSONstringify(LogEntry(level, message, ms, meta))
  IN IF level = "error"
     THEN [stdout |-> out, stderr |-> Append(errs, entry)]
     ELSE [stdout |-> Append(out, entry), stderr |-> errs]

loggerDebug(message, meta, ms, out, errs) == writeLog("debug", message, meta, ms, out, errs)
loggerInfo(message, meta, ms, out, errs) == writeLog("info", message, meta, ms, out, errs)
loggerWarn(message, meta, ms, out, errs) == writeLog("warn", message, meta, ms, out, errs)
loggerError(message, meta, ms, out, errs) == writeLog("error", message, meta, ms, out, errs)

\* ------------------------------------------------------------------------
\* Map<string, Item>: entries in insertion order, keys unique
\* ------------------------------------------------------------------------
MapKeys(m) == {m[i].key : i \in 1..Len(m)}

\* a set() that forgets the entries already there
MapSetAlone(m, k, v) == <<[key |-> k, value |-> v]>>

\* a set() that drops the oldest entry to make room
MapSetEvicting(m, k, v) ==
  IF m = <<>> THEN <<[key |-> k, value |-> v]>>
  ELSE Append(Tail(m), [key |-> k, value |-> v])

\* a set() that puts a new entry in front
MapSetFront(m, k, v) == <<[key |-> k, value |-> v]>> \o m

MapSet(m, k, v) ==
  IF k \in MapKeys(m)
  THEN [i \in 1..Len(m) |-> IF m[i].key = k THEN [key |-> k, value |-> v] ELSE m[i]]
  ELSE Append(m, [key |-> k, value |-> v])

MapValues(m) == [i \in 1..Len(m) |-> m[i].value]

MapClear(m) == <<>>

\* ------------------------------------------------------------------------
\* src/api/index.ts
\* ------------------------------------------------------------------------
Success(data) == [success |-> TRUE, data |-> data]
\* a failure envelope that also carries data: null
FailureWithData(message) == [success |-> FALSE, error |-> message, data |-> Null]

Failure(message) == [success |-> FALSE, error |-> message]
Thrown(kind) == [throws |-> kind]

\* a health check that reports something else
handleHealthCheckDegraded == Success([status |-> "degraded"])

handleHealthCheck == Success([status |-> "ok"])

\* a listing that leaves out the oldest item
handleGetItemsSkipsFirst(its) ==
  Success(IF its = <<>> THEN <<>> ELSE Tail(MapValues(its)))

handleGetItems(its) == Success(MapValues(its))

\* handleCreateItem without the guard of line 78
BodyMissingNever(body) == FALSE

\* line 78: !body
BodyMissing(body) == ~Truthy(body)

\* line 84 raises a TypeError when it reads a property of null or undefined,
\* or calls .trim on a truthy name that is not a string
NameFaults(body) ==
  \/ body.t \in {"undefined", "null"}
  \/ Truthy(body.name) /\ body.name.t # "string"

\* line 84 without its whitespace test
NameMissingUntrimmed(body) == ~Truthy(body.name)

\* line 84: !body.name || body.name.trim().length === 0
NameMissing(body) == ~Truthy(body.name) \/ Length(trim(body.name.v)) = 0

\* line 90 with >= for >
NameTooLongAtLimit(body) == Length(trim(body.name.v)) >= MaxNameLength

\* line 90 on the raw name
NameTooLongRaw(body) == Length(body.name.v) > MaxNameLength

\* line 90 without its test
NameTooLongNever(body) == FALSE

\* line 90: body.name.trim().length > 100
NameTooLong(body) == Length(trim(body.name.v)) > MaxNameLength

\* a rejection that also reports itself through logger.error
RejectLogged(e, evaluated, its, out, errs) ==
  LET w == writeLog("error", e.message, [field |-> Lit(e.field)], 0, out, errs)
  IN [response |-> Failure(e.message), err |-> e, rules |-> evaluated,
      items |-> its, stdout |-> w.stdout, stderr |-> w.stderr]

\* a rejection that comes after the item was put in the store
RejectStored(e, evaluated, its, out, errs) ==
  [response |-> Failure(e.message), err |-> e, rules |-> evaluated,
   items |-> Append(its, [key |-> 0, value |-> [id |-> 0, name |-> <<>>, createdAt |-> 0]]),
   stdout |-> out, stderr |-> errs]

\* lines 79-80, 85-86, 91-92: build the error, return its message, touch nothing
Reject(e, evaluated, its, out, errs) ==
  [response |-> Failure(e.message), err |-> e, rules |-> evaluated,
   items |-> its, stdout |-> out, stderr |-> errs]

\* an uncaught fault leaves the handler before it changes anything
Fault(kind, evaluated, its, out, errs) ==
  [response |-> Thrown(kind), err |-> None, rules |-> evaluated,
   items |-> its, stdout |-> out, stderr |-> errs]

\* a creation time read once, when the module was loaded
NewItemStaleDate(body, uuid, createdAt) ==
  [id |-> uuid, name |-> trim(body.name.v), createdAt |-> 0]

\* an id made from the creation time
NewItemTimeId(body, uuid, createdAt) ==
  [id |-> createdAt + 1, name |-> trim(body.name.v), createdAt |-> createdAt]

\* lines 95-99
NewItem(body, uuid, createdAt) ==
  [id |-> uuid, name |-> trim(body.name.v), createdAt |-> createdAt]

\* a store that refuses a name it already holds
StoreUniqueNames(newItem, logAt, its, out, errs) ==
  LET w == loggerInfo("Item created", [id |-> Lit(newItem.id)], logAt, out, errs)
  IN IF \E i \in 1..Len(its) : its[i].value.name = newItem.name
     THEN [response |-> Failure("Item name already exists."), err |-> None,
           rules |-> <<1, 2, 3>>, items |-> its, stdout |-> out, stderr |-> errs]
     ELSE [response |-> Success(newItem), err |-> None, rules |-> <<1, 2, 3>>,
           items |-> MapSet(its, newItem.id, newItem),
           stdout |-> w.stdout, stderr |-> w.stderr]

\* a store that does not report the item it kept
StoreSilent(newItem, logAt, its, out, errs) ==
  [response |-> Success(newItem), err |-> None, rules |-> <<1, 2, 3>>,
   items |-> MapSet(its, newItem.id, newItem), stdout |-> out, stderr |-> errs]

\* lines 101-106
Store(newItem, logAt, its, out, errs) ==
  LET w == loggerInfo("Item created", [id |-> Lit(newItem.id)], logAt, out, errs)
  IN [response |-> Success(newItem), err |-> None, rules |-> <<1, 2, 3>>,
      items |-> MapSet(its, newItem.id, newItem),
      stdout |-> w.stdout, stderr |-> w.stderr]

\* The whole handler: what it returns, the error object it builds, the rules
\* it evaluates, and the store and the streams it leaves behind.
handleCreateItem(body, uuid, createdAt, logAt, its, out, errs) ==
  IF BodyMissing(body)
    THEN Reject(ValidationError(MsgBodyRequired, "body"), <<1>>, its, out, errs)
  ELSE IF NameFaults(body)
    THEN Fault("TypeError", <<1, 2>>, its, out, errs)
  ELSE IF NameMissing(body)
    THEN Reject(ValidationError(MsgNameRequired, "name"), <<1, 2>>, its, out, errs)
  ELSE IF NameTooLong(body)
    THEN Reject(ValidationError(MsgNameTooLong, "name"), <<1, 2, 3>>, its, out, errs)
  ELSE Store(NewItem(body, uuid, createdAt), logAt, its, out, errs)

\* a reset that does nothing
clearItemsNoop(its) == its

clearItems(its) == MapClear(its)

\* ------------------------------------------------------------------------
\* The state machine: one action per exported handler
\* ------------------------------------------------------------------------
Init ==
  /\ items = <<>>
  /\ stdout = <<>>
  /\ stderr = <<>>
  /\ now = 0
  /\ issued = {}
  /\ lastOp = "none"
  /\ lastBody = None
  /\ response = None
  /\ err = None
  /\ rules = <<>>
  /\ returned = <<>>
  /\ live = <<>>
  /\ listed = None

HealthCheck ==
  /\ lastOp' = "healthCheck"
  /\ lastBody' = None
  /\ response' = handleHealthCheck
  /\ err' = None
  /\ rules' = <<>>
  /\ UNCHANGED <<items, stdout, stderr, now, issued, returned, live, listed>>

GetItems ==
  /\ lastOp' = "getItems"
  /\ lastBody' = None
  /\ response' = handleGetItems(items)
  /\ err' = None
  /\ rules' = <<>>
  /\ listed' = [t |-> "array", v |-> response'.data]
  /\ UNCHANGED <<items, stdout, stderr, now, issued, returned, live>>

\* The ids crypto.randomUUID() may return: one it has not returned before.
randomUUID(given) == Ids \ given

\* The readings new Date() may return: the clock does not run backwards.
Date(last) == {t \in Times : t >= last}

\* Whether handleCreateItem(body) reaches line 95
Accepted(body) ==
  ~BodyMissing(body) /\ ~NameFaults(body) /\ ~NameMissing(body) /\ ~NameTooLong(body)

\* The generator and the clock are consulted on the success path only
\* (lines 96, 98 and logger.ts line 30); a rejected request draws nothing.
\* The handler is entered at now; time may pass before each reading and
\* between the last one and the next call, which is entered at endAt.
NoDraw == [uuid |-> 0, createdAt |-> 0, logAt |-> 0, endAt |-> 0]

Draws(body) ==
  IF Accepted(body)
  THEN {d \in [uuid : randomUUID(issued), createdAt : Date(now), logAt : Times, endAt : Times] :
          d.logAt \in Date(d.createdAt) /\ d.endAt \in Date(d.logAt)}
  ELSE {NoDraw}

CreateItem ==
  \E body \in Bodies :
    \E d \in Draws(body) :
      \E r \in {handleCreateItem(body, d.uuid, d.createdAt, d.logAt, items, stdout, stderr)} :
         /\ lastOp' = "createItem"
         /\ lastBody' = body
         /\ response' = r.response
         /\ err' = r.err
         /\ rules' = r.rules
         /\ items' = r.items
         /\ stdout' = r.stdout
         /\ stderr' = r.stderr
         /\ issued' = IF d = NoDraw THEN issued ELSE issued \cup {d.uuid}
         /\ now' = IF d = NoDraw THEN now ELSE d.endAt
         /\ IF "data" \in DOMAIN r.response /\ r.response.success
            THEN /\ returned' = Append(returned, r.response.data.id)
                 /\ live' = Append(live, r.response.data)
                 /\ listed' = None
            ELSE UNCHANGED <<returned, live, listed>>

ClearItems ==
  /\ lastOp' = "clearItems"
  /\ lastBody' = None
  /\ response' = Undefined
  /\ err' = None
  /\ rules' = <<>>
  /\ items' = clearItems(items)
  /\ live' = <<>>
  /\ listed' = None
  /\ UNCHANGED <<stdout, stderr, now, issued, returned>>

Next == HealthCheck \/ GetItems \/ CreateItem \/ ClearItems

Spec == Init /\ [][Next]_vars

\* The item handleCreateItem returns (line 106) and the items handleGetItems
\* returns (line 65) are the objects the Map holds, and Item has no readonly
\* field: an assignment by the caller to a field of one of them changes the
\* stored item.
CallerNames == {Rep("z", 1)}

CallerWrites ==
  \E i \in 1..Len(items), name \in CallerNames :
    /\ items' = [items EXCEPT ![i].value.name = name]
    /\ UNCHANGED <<stdout, stderr, now, issued, lastOp, lastBody, response, err, rules,
                   returned, live, listed>>

NextCaller == Next \/ CallerWrites

SpecCaller == Init /\ [][NextCaller]_vars

\* ------------------------------------------------------------------------
\* The library modules called on their own: src/utils/logger.ts and
\* src/errors/ValidationError.ts
\* ------------------------------------------------------------------------
MaxLines == 2

Messages == {"Unexpected failure"}

\* meta?: Record<string, unknown>: left out, a plain context, a context that
\* names a key of the entry itself, a context with an undefined value
Metas ==
  {Undefined, [id |-> Lit("a1")], [level |-> Lit("error")], [requestId |-> Undefined]}

\* One call logger.<level>(message, meta), entered at now; the timestamp ms
\* is read at line 30, and w is what the call leaves on the streams.
LoggerCall(method, message, meta, ms, w) ==
  /\ lastOp' = method
  /\ lastBody' = [message |-> message, meta |-> meta]
  /\ response' = Undefined
  /\ err' = None
  /\ stdout' = w.stdout
  /\ stderr' = w.stderr
  /\ now' = ms
  /\ UNCHANGED <<items, issued, rules, returned, live, listed>>

LoggerDebug ==
  /\ Len(stdout) + Len(stderr) < MaxLines
  /\ \E message \in Messages, meta \in Metas, ms \in Date(now) :
       LoggerCall("logger.debug", message, meta, ms,
                  loggerDebug(message, meta, ms, stdout, stderr))

LoggerInfo ==
  /\ Len(stdout) + Len(stderr) < MaxLines
  /\ \E message \in Messages, meta \in Metas, ms \in Date(now) :
       LoggerCall("logger.info", message, meta, ms,
                  loggerInfo(message, meta, ms, stdout, stderr))

LoggerWarn ==
  /\ Len(stdout) + Len(stderr) < MaxLines
  /\ \E message \in Messages, meta \in Metas, ms \in Date(now) :
       LoggerCall("logger.warn", message, meta, ms,
                  loggerWarn(message, meta, ms, stdout, stderr))

LoggerError ==
  /\ Len(stdout) + Len(stderr) < MaxLines
  /\ \E message \in Messages, meta \in Metas, ms \in Date(now) :
       LoggerCall("logger.error", message, meta, ms,
                  loggerError(message, meta, ms, stdout, stderr))

\* new ValidationError(message) and new ValidationError(message, field)
CtorArgs ==
  {<<m>> : m \in {MsgNameRequired, ""}}
    \cup {<<m, Lit(f)>> : m \in {MsgNameRequired, ""}, f \in {"name", ""}}

NewValidationError ==
  \E args \in CtorArgs :
    /\ lastOp' = "new ValidationError"
    /\ lastBody' = args
    /\ response' = Undefined
    /\ err' = newValidationError(args)
    /\ UNCHANGED <<items, stdout, stderr, now, issued, rules, returned, live, listed>>

NextLib == LoggerDebug \/ LoggerInfo \/ LoggerWarn \/ LoggerError \/ NewValidationError

SpecLib == Init /\ [][NextLib]_vars

\* ------------------------------------------------------------------------
\* The hook scripts: src/scripts/hooks/pre-tool.sh, pre-commit.sh, post-test.sh
\* ------------------------------------------------------------------------
\* A text is a sequence of tokens, each a piece of the text that is never
\* split: "/", " ", "|", "'" and "\n" are always tokens of their own, a digit
\* is a token, and a word that ends in "git" or begins with "commit", "npm"
\* or "test" is written as several tokens.  A pattern then occurs in a text
\* exactly when its tokens occur there side by side.

\* [[ "$text" == *"pat"* ]]
Contains(text, pat) ==
  \E i \in 1..(Len(text) - Len(pat) + 1) : SubSeq(text, i, i + Len(pat) - 1) = pat

\* the pieces of a text between the separators
RECURSIVE Split(_, _)
Split(text, sep) ==
  IF text = <<>> THEN << <<>> >>
  ELSE LET rest == Split(Tail(text), sep)
       IN IF Head(text) = sep
          THEN << <<>> >> \o rest
          ELSE << <<Head(text)>> \o rest[1] >> \o Tail(rest)

\* gsub(/ /, "", text)
RECURSIVE Squeeze(_)
Squeeze(text) ==
  IF text = <<>> THEN <<>>
  ELSE IF Head(text) = " " THEN Squeeze(Tail(text))
  ELSE <<Head(text)>> \o Squeeze(Tail(text))

\* The document on stdin: text json.load rejects, or the JSON value it is
Garbage == [t |-> "garbage"]
Dict(f) == [t |-> "dict", f |-> f]
List == [t |-> "list"]

\* Python: print(x)
str(x) ==
  CASE x.t = "string" -> x.v
    [] x.t = "null" -> <<"None">>
    [] x.t = "dict" -> <<"{", "}">>
    [] x.t = "list" -> <<"[", "]">>

\* Python: d.get(k, default)
get(d, k, default) == IF k \in DOMAIN d.f THEN d.f[k] ELSE default

\* a python3 -c one-liner: what it printed, or that it raised
Printed(x) == [ok |-> TRUE, out |-> str(x)]
Raised == [ok |-> FALSE, out |-> <<>>]

\* $(python3 ... 2>/dev/null || echo "fallback")
OrEcho(py, fallback) == IF py.ok THEN py.out ELSE fallback

\* pre-tool.sh line 24
PyToolName(doc) ==
  IF doc.t # "dict" THEN Raised
  ELSE Printed(get(doc, "tool_name", Lit(<<"unknown">>)))

\* pre-tool.sh line 33
PyFilePath(doc) ==
  IF doc.t # "dict" THEN Raised
  ELSE LET i == get(doc, "tool_input", Dict(EmptyObject))
       IN IF i.t # "dict" THEN Raised
          ELSE Printed(get(i, "file_path", get(i, "path", Lit(<<>>))))

\* pre-commit.sh line 22, post-test.sh line 22
PyCommand(doc) ==
  IF doc.t # "dict" THEN Raised
  ELSE LET i == get(doc, "tool_input", Dict(EmptyObject))
       IN IF i.t # "dict" THEN Raised
          ELSE Printed(get(i, "command", Lit(<<>>)))

\* post-test.sh line 33
PyResponse(doc) ==
  IF doc.t # "dict" THEN Raised
  ELSE Printed(get(doc, "tool_response", Lit(<<>>)))

\* The result of a hook: its exit code, what it ran, the shell variables it
\* set, and its two streams.
Exit(code, ran, shellVars, out, errs) ==
  [exit |-> code, ran |-> ran, sh |-> shellVars, stdout |-> out, stderr |-> errs]

\* The hook has not returned and never will
Hangs(ran, shellVars, out, errs) ==
  [hangs |-> TRUE, ran |-> ran, sh |-> shellVars, stdout |-> out, stderr |-> errs]

\* pre-tool.sh lines 20-43; at is the reading of date at line 28
preTool(doc, at) ==
  LET TOOL_NAME == OrEcho(PyToolName(doc), <<"unknown">>)
      guarded == TOOL_NAME = <<"Write">> \/ TOOL_NAME = <<"Edit">>
      FILE_PATH == IF guarded THEN OrEcho(PyFilePath(doc), <<>>) ELSE <<>>
      log == <<[text |-> "[pre-tool] Tool invoked: ", v |-> TOOL_NAME, at |-> at]>>
      shellVars == [TOOL_NAME |-> TOOL_NAME, FILE_PATH |-> FILE_PATH]
  IN IF guarded /\ Contains(FILE_PATH, <<"/", "dist", "/">>)
     THEN Exit(2, <<>>, shellVars,
               <<"BLOCKED: Direct writes to dist/ are not allowed.",
                 "dist/ is managed by 'npm run build'. Edit source files in src/ instead.">>,
               log)
     ELSE Exit(0, <<>>, shellVars, <<>>, log)

\* a lint gate that runs before the command is looked at
preCommitLintFirst(doc, lintExit) ==
  LET COMMAND == OrEcho(PyCommand(doc), <<>>)
  IN Exit(IF lintExit # 0 THEN 2 ELSE 0, <<"npm run lint">>,
          [COMMAND |-> COMMAND, LINT_EXIT |-> lintExit], <<>>, <<>>)

\* pre-commit.sh lines 18-48; lintExit is the exit code of npm run lint
preCommit(doc, lintExit) ==
  LET COMMAND == OrEcho(PyCommand(doc), <<>>)
      detected ==
        <<[text |-> "[pre-commit] git commit detected - running lint check before allowing commit..."],
          [text |-> "npm run lint", exit |-> lintExit]>>
      linted == [COMMAND |-> COMMAND, LINT_EXIT |-> lintExit]
  IN IF ~Contains(COMMAND, <<"git", " ", "commit">>)
     THEN Exit(0, <<>>, [COMMAND |-> COMMAND], <<>>, <<>>)
     ELSE IF lintExit # 0
     THEN Exit(2, <<"npm run lint">>, linted,
               <<"BLOCKED: Lint violations must be fixed before committing.",
                 "",
                 "Run 'npm run lint:fix' to auto-fix formatting and simple rule violations.",
                 "Then re-run your commit command.",
                 "",
                 "Do not use --no-verify to skip this check - fix the violations instead.">>,
               detected)
     ELSE Exit(0, <<"npm run lint">>, linted, <<>>,
               Append(detected, [text |-> "[pre-commit] Lint passed - proceeding with commit."]))

\* post-test.sh line 49
THRESHOLD == 80

\* Python: float(text), for the texts that are a row of digits
DigitChars == <<"0", "1", "2", "3", "4", "5", "6", "7", "8", "9">>
IsNumber(text) ==
  text # <<>> /\ \A i \in 1..Len(text) : \E d \in 1..10 : DigitChars[d] = text[i]
DigitValue(c) == (CHOOSE d \in 1..10 : DigitChars[d] = c) - 1

RECURSIVE float(_)
float(text) ==
  IF text = <<>> THEN 0
  ELSE 10 * float(SubSeq(text, 1, Len(text) - 1)) + DigitValue(text[Len(text)])

\* An expression that never returns, and the text that puts it after the
\* string literal of line 50: ')or(any(iter(list,0)))or('
NeverReturns == "any(iter(list,0))"
OrNeverReturns == <<"'", ")or(", NeverReturns, ")or(", "'">>

Spins == [ok |-> FALSE, out |-> <<>>, spins |-> TRUE]

\* post-test.sh line 50:
\*   python3 -c "print('yes' if float('${COVERAGE}') < ${THRESHOLD} else 'no')"
\* COVERAGE is pasted into the source.  Without a quote it is the argument of
\* float.  With a quote it ends the literal and what follows is source: after
\* a number that is 0 the operand of "or" is evaluated, after another number
\* the number itself is the condition, and a source the model does not know
\* is taken to raise.
PyBelow(cov) ==
  IF ~Contains(cov, <<"'">>)
  THEN IF IsNumber(cov)
       THEN Printed(Lit(IF float(cov) < THRESHOLD THEN <<"yes">> ELSE <<"no">>))
       ELSE Raised
  ELSE LET k == CHOOSE i \in 1..Len(cov) : cov[i] = "'" /\ \A j \in 1..(i - 1) : cov[j] # "'"
           literal == SubSeq(cov, 1, k - 1)
       IN IF SubSeq(cov, k, Len(cov)) = OrNeverReturns /\ IsNumber(literal)
          THEN IF float(literal) = 0 THEN Spins ELSE Printed(Lit(<<"yes">>))
          ELSE Raised

\* grep -E "^All files"
IsAllFilesRow(line) == Len(line) >= 3 /\ SubSeq(line, 1, 3) = <<"All", " ", "files">>

\* awk -F'|' '{gsub(/ /,"",$4); print $4}'
Field4(line) ==
  LET fields == Split(line, "|")
  IN IF Len(fields) >= 4 THEN Squeeze(fields[4]) ELSE <<>>

\* post-test.sh line 36: grep | awk | head -1
Coverage(text) ==
  LET lines == Split(text, "\n")
      rows == SelectSeq(lines, IsAllFilesRow)
  IN IF rows = <<>> THEN <<>> ELSE Field4(rows[1])

\* post-test.sh lines 18-59
postTest(doc) ==
  LET COMMAND == OrEcho(PyCommand(doc), <<>>)
      RESPONSE == OrEcho(PyResponse(doc), <<>>)
      COVERAGE == Coverage(RESPONSE)
      below == PyBelow(COVERAGE)
      BELOW == OrEcho(below, <<"unknown">>)
      completed == <<[text |-> "[post-test] npm test completed."]>>
      reported ==
        Append(completed, [text |-> "[post-test] Global line coverage: ", v |-> COVERAGE])
      parsed == [COMMAND |-> COMMAND, RESPONSE |-> RESPONSE, COVERAGE |-> COVERAGE]
  IN IF ~Contains(COMMAND, <<"npm", " ", "test">>)
     THEN Exit(0, <<>>, [COMMAND |-> COMMAND], <<>>, <<>>)
     ELSE IF COVERAGE = <<>>
     THEN Exit(0, <<>>, parsed, <<>>,
               Append(completed,
                      [text |-> "[post-test] Could not parse coverage from output. Check test results above."]))
     ELSE IF "spins" \in DOMAIN below
     THEN Hangs(<<>>, parsed, <<>>, reported)
     ELSE IF BELOW = <<"yes">>
     THEN Exit(0, <<>>, parsed @@ [BELOW |-> BELOW], <<>>,
               reported \o
                 <<[text |-> ""],
                   [text |-> "[post-test] WARNING: Coverage is ", v |-> COVERAGE, threshold |-> THRESHOLD],
                   [text |-> "[post-test] Invoke the quality-assurance-engineer agent to add tests for uncovered branches."],
                   [text |-> "[post-test] Do not lower the coverageThreshold in package.json to work around this."]>>)
     ELSE Exit(0, <<>>, parsed @@ [BELOW |-> BELOW], <<>>, reported)

\* Hook inputs.  Paths: under dist/ (absolute and relative to the project),
\* beside it, in a directory whose name begins with dist, a file named dist.
DistAbsolute == <<"/", "p", "/", "dist", "/", "a.js">>
DistRelative == <<"dist", "/", "a.js">>
Paths ==
  {DistAbsolute, DistRelative,
   <<"/", "p", "/", "src", "/", "a.ts">>,
   <<"/", "p", "/", "dist2", "/", "a.js">>,
   <<"/", "p", "/", "dist">>}

ToolNames == {<<"Write">>, <<"Edit">>, <<"Bash">>, <<"Read">>}

GitCommit == <<"git", " ", "commit", " ", "-m", " ", "x">>
GitCommitInDir == <<"git", " ", "-C", " ", ".", " ", "commit", " ", "-m", " ", "x">>
NpmTest == <<"npm", " ", "test">>
Commands ==
  {GitCommit, GitCommitInDir,
   <<"git", " ", " ", "commit">>,
   <<"git", " ", "status">>,
   <<"echo", " ", "git", " ", "commit">>,
   NpmTest,
   <<"npm", " ", "test", " ", "--", " ", "--coverage">>,
   <<"ls">>,
   <<>>}

ToolInputs ==
  {Dict([file_path |-> Lit(p)]) : p \in Paths}
    \cup {Dict([path |-> Lit(p)]) : p \in Paths}
    \cup {Dict([command |-> Lit(c)]) : c \in Commands}
    \cup {Dict(EmptyObject), Lit(<<"x">>)}

\* The documents on stdin: not JSON, JSON that is no object, and objects
\* with and without tool_name and tool_input
ToolCalls ==
  {Garbage, List, Dict(EmptyObject)}
    \cup {Dict([tool_name |-> Lit(n), tool_input |-> i]) : n \in ToolNames, i \in ToolInputs}
    \cup {Dict([tool_name |-> Lit(n)]) : n \in ToolNames}
    \cup {Dict([tool_input |-> i]) : i \in ToolInputs}
    \cup {Dict([tool_name |-> Null, tool_input |-> Dict([file_path |-> Lit(DistAbsolute)])])}

\* Jest's coverage table: File | % Stmts | % Branch | % Funcs | % Lines | Uncovered
Percents == {<<"7", "9">>, <<"8", "0">>, <<"9", "5">>}
AllFiles == <<"All", " ", "files", " ">>
Cell(text) == <<"|", " ">> \o text \o <<" ">>
Row(stmts, branch, funcs, lines) ==
  AllFiles \o Cell(stmts) \o Cell(branch) \o Cell(funcs) \o Cell(lines) \o <<"|", "\n">>
Header ==
  <<"File", " ", "|", "% Stmts", "|", "% Branch", "|", "% Funcs", "|", "% Lines", "|", "\n">>

ToolResponses ==
  {Lit(Header \o Row(<<"9", "0">>, <<"9", "0">>, f, l)) : f \in Percents, l \in Percents}
    \cup {Lit(<<"FAIL", " ", "src/api/index.test.ts", "\n">>),
          Lit(AllFiles \o <<"|", "\n">>),
          Lit(Row(<<"9", "0">>, <<"9", "0">>, <<"Unknown">>, <<"9", "0">>)),
          Lit(Row(<<"9", "0">>, <<"9", "0">>, <<"0">> \o OrNeverReturns, <<"9", "0">>)),
          Lit(Row(<<"9", "0">>, <<"9", "0">>, <<"5">> \o OrNeverReturns, <<"9", "0">>)),
          Dict([stdout |-> Lit(Row(<<"9", "0">>, <<"9", "0">>, <<"9", "0">>, <<"9", "0">>))])}

\* what a PostToolUse hook of the Bash tool is given
ToolResults ==
  {Garbage, List, Dict(EmptyObject)}
    \cup {Dict([tool_input |-> Dict([command |-> Lit(c)]), tool_response |-> r]) :
            c \in {NpmTest, <<"ls">>}, r \in ToolResponses}
    \cup {Dict([tool_input |-> Dict([command |-> Lit(NpmTest)])])}

\* exit codes of npm run lint
LintExits == {0, 1}

Hook(name, doc, r) ==
  /\ lastOp' = name
  /\ lastBody' = doc
  /\ response' = [k \in DOMAIN r \ {"stdout", "stderr"} |-> r[k]]
  /\ stdout' = r.stdout
  /\ stderr' = r.stderr
  /\ err' = None
  /\ UNCHANGED <<items, issued, rules, returned, live, listed>>

PreToolHook ==
  \E doc \in ToolCalls, at \in Date(now) :
    Hook("pre-tool.sh", doc, preTool(doc, at)) /\ now' = at

PreCommitHook ==
  \E doc \in ToolCalls, lintExit \in LintExits :
    Hook("pre-commit.sh", doc, preCommit(doc, lintExit)) /\ UNCHANGED now

PostTestHook ==
  \E doc \in ToolResults :
    Hook("post-test.sh", doc, postTest(doc)) /\ UNCHANGED now

NextHooks == PreToolHook \/ PreCommitHook \/ PostTestHook

SpecHooks == Init /\ [][NextHooks]_vars

\* ------------------------------------------------------------------------
\* What the claims speak of, stated without the handler's own operators
\* ------------------------------------------------------------------------
IsCreate == lastOp = "createItem"
IsEnvelope(r) == "success" \in DOMAIN r
Succeeded(r) == IsEnvelope(r) /\ r.success
Failed(r) == IsEnvelope(r) /\ ~r.success
HasStringName(b) == b.t = "object" /\ b.name.t = "string"

AllWhite(s, i, j) == \A k \in i..j : s[k].c \in WhiteSpace

\* t is s without its leading and trailing whitespace
IsStripped(t, s) ==
  \E i \in 1..(Len(s) + 1), j \in 0..Len(s) :
    /\ t = SubSeq(s, i, j)
    /\ AllWhite(s, 1, i - 1)
    /\ AllWhite(s, j + 1, Len(s))
    /\ i <= j => s[i].c \notin WhiteSpace /\ s[j].c \notin WhiteSpace

Stripped(s) ==
  CHOOSE t \in {SubSeq(s, i, j) : i \in 1..(Len(s) + 1), j \in 0..Len(s)} : IsStripped(t, s)

TrimmedLength(s) == Length(Stripped(s))

\* C1: a request whose name has trimmed length 1..100 is answered with
\* success:true and data.name equal to the name without its leading and
\* trailing whitespace.
C1_ValidNameStoredTrimmed ==
  (IsCreate /\ HasStringName(lastBody) /\ TrimmedLength(lastBody.name.v) \in 1..100)
    => /\ Succeeded(response)
       /\ "data" \in DOMAIN response
       /\ IsStripped(response.data.name, lastBody.name.v)

C1_Witness ==
  /\ IsCreate /\ HasStringName(lastBody)
  /\ TrimmedLength(lastBody.name.v) \in 1..100
  /\ lastBody.name.v[1].c \in WhiteSpace
  /\ lastBody.name.v[Len(lastBody.name.v)].c \in WhiteSpace
  /\ Succeeded(response)
  /\ response.data.name # lastBody.name.v

\* C2: a present body whose name is absent, empty or only whitespace is
\* answered with success:false, the error "Item name is required." and no data.
C2_NameRequired ==
  (/\ IsCreate /\ lastBody.t = "object"
   /\ \/ lastBody.name = Undefined
      \/ lastBody.name.t = "string" /\ TrimmedLength(lastBody.name.v) = 0)
    => response = [success |-> FALSE, error |-> "Item name is required."]

C2_Witness ==
  /\ IsCreate /\ HasStringName(lastBody)
  /\ Length(lastBody.name.v) > 1
  /\ TrimmedLength(lastBody.name.v) = 0
  /\ Failed(response)
  /\ items # <<>>

\* C3: a name of trimmed length above 100 is answered with success:false, the
\* error "Item name must not exceed 100 characters." and no data.
C3_NameTooLong ==
  (IsCreate /\ HasStringName(lastBody) /\ TrimmedLength(lastBody.name.v) > 100)
    => response = [success |-> FALSE, error |-> "Item name must not exceed 100 characters."]

C3_Witness ==
  /\ IsCreate /\ HasStringName(lastBody)
  /\ TrimmedLength(lastBody.name.v) > 100
  /\ Length(lastBody.name.v) > TrimmedLength(lastBody.name.v)
  /\ Failed(response)

\* C4: the limit is inclusive at 100: a name of trimmed length exactly 100 is
\* accepted and a name of trimmed length exactly 101 is rejected.
C4_LimitInclusive ==
  (IsCreate /\ HasStringName(lastBody))
    => /\ TrimmedLength(lastBody.name.v) = 100 => Succeeded(response)
       /\ TrimmedLength(lastBody.name.v) = 101 => Failed(response)

\* a name of 101 characters is refused while one of 100 characters is stored
C4_Witness ==
  /\ IsCreate /\ HasStringName(lastBody)
  /\ TrimmedLength(lastBody.name.v) = 101
  /\ Failed(response)
  /\ \E i \in 1..Len(items) : Length(items[i].value.name) = 100

NoSurroundingWhitespace(s) ==
  s # <<>> /\ s[1].c \notin WhiteSpace /\ s[Len(s)].c \notin WhiteSpace

\* C5: the limit is applied to the trimmed name: a padded name longer than 100
\* characters whose trimmed length is at most 100 is accepted, and the name
\* that is stored has no surrounding whitespace.
C5_LimitOnTrimmedName ==
  (/\ IsCreate /\ HasStringName(lastBody)
   /\ Length(lastBody.name.v) > 100
   /\ TrimmedLength(lastBody.name.v) \in 1..100)
    => /\ Succeeded(response)
       /\ NoSurroundingWhitespace(response.data.name)
       /\ \E i \in 1..Len(items) :
            /\ items[i].key = response.data.id
            /\ NoSurroundingWhitespace(items[i].value.name)

C5_Witness ==
  /\ IsCreate /\ HasStringName(lastBody)
  /\ Length(lastBody.name.v) > 100
  /\ TrimmedLength(lastBody.name.v) = 100
  /\ Succeeded(response)
  /\ Length(response.data.name) = 100

\* C6: a missing body (undefined or null) is answered with success:false, the
\* error "Request body is required." and no data.
C6_BodyRequired ==
  (IsCreate /\ lastBody \in {Undefined, Null})
    => response = [success |-> FALSE, error |-> "Request body is required."]

C6_Witness ==
  /\ IsCreate /\ lastBody = Null
  /\ Failed(response)
  /\ items # <<>>

\* The three rules as the specification words them
Rule1Fails(b) == b \in {Undefined, Null}
Rule2Fails(b) ==
  /\ b.t = "object"
  /\ \/ b.name = Undefined
     \/ b.name.t = "string" /\ TrimmedLength(b.name.v) = 0
Rule3Fails(b) == HasStringName(b) /\ TrimmedLength(b.name.v) > 100

FirstFailing(b) ==
  IF Rule1Fails(b) THEN 1
  ELSE IF Rule2Fails(b) THEN 2
  ELSE IF Rule3Fails(b) THEN 3
  ELSE 0

RuleMessage(k) ==
  CASE k = 1 -> "Request body is required."
    [] k = 2 -> "Item name is required."
    [] k = 3 -> "Item name must not exceed 100 characters."

RuleField(k) == IF k = 1 THEN "body" ELSE "name"

\* C7: validation is fail-fast in the order body, name required, name too
\* long: the failure envelope carries the one message of the first rule that
\* fails, taken from a ValidationError whose field is "body" for rule 1 and
\* "name" for rules 2 and 3, and no rule after the failing one is evaluated.
C7_FailFastInOrder ==
  /\ (IsCreate /\ FirstFailing(lastBody) # 0)
       => /\ response = [success |-> FALSE, error |-> RuleMessage(FirstFailing(lastBody))]
          /\ err = [name |-> "ValidationError",
                    message |-> RuleMessage(FirstFailing(lastBody)),
                    field |-> RuleField(FirstFailing(lastBody))]
          /\ rules = [i \in 1..FirstFailing(lastBody) |-> i]
  /\ (IsCreate /\ Failed(response))
       => /\ DOMAIN response = {"success", "error"}
          /\ \E k \in 1..3 :
               /\ rules = [i \in 1..k |-> i]
               /\ err = [name |-> "ValidationError", message |-> RuleMessage(k),
                         field |-> RuleField(k)]
               /\ response.error = err.message

\* the second rule fails on a name the third rule is never asked about
C7_Witness ==
  /\ IsCreate /\ Failed(response)
  /\ FirstFailing(lastBody) = 2
  /\ rules = <<1, 2>>
  /\ err.field = "name"

\* C8: a createItem call that fails validation leaves the collection as it
\* was and writes no log line.
C8_FailureChangesNothing ==
  [][(lastOp' = "createItem" /\ Failed(response'))
       => (items' = items /\ stdout' = stdout /\ stderr' = stderr)]_vars

C8_Witness ==
  /\ IsCreate /\ Failed(response)
  /\ items # <<>>
  /\ stdout # <<>>

\* C9: a createItem call that succeeds adds exactly one item, under an id no
\* item had, writes exactly one info line "Item created" carrying that id,
\* returns the item it stored, and leaves the items already stored as they were.
C9_SuccessInsertsOne ==
  [][(lastOp' = "createItem" /\ Succeeded(response'))
       => /\ \A i \in 1..Len(items) : items[i].key # response'.data.id
          /\ Len(items') = Len(items) + 1
          /\ \A i \in 1..Len(items) : \E j \in 1..Len(items') : items'[j] = items[i]
          /\ \E j \in 1..Len(items') :
               items'[j] = [key |-> response'.data.id, value |-> response'.data]
          /\ Len(stdout') = Len(stdout) + 1
          /\ SubSeq(stdout', 1, Len(stdout)) = stdout
          /\ stdout'[Len(stdout')].json.level = [t |-> "string", v |-> "info"]
          /\ stdout'[Len(stdout')].json.message = [t |-> "string", v |-> "Item created"]
          /\ stdout'[Len(stdout')].json.id = [t |-> "string", v |-> response'.data.id]
          /\ stderr' = stderr]_vars

\* a second item is stored beside a first one
C9_Witness ==
  /\ IsCreate /\ Succeeded(response)
  /\ Len(items) = 2
  /\ items[2].value = response.data
  /\ Len(stdout) = 2

\* C10: in every envelope returned by healthCheck, listItems and createItem,
\* data and error are never both present, data is present only with
\* success:true and error only with success:false.
C10_EnvelopeShape ==
  (lastOp \in {"healthCheck", "getItems", "createItem"} /\ IsEnvelope(response))
    => /\ ~("data" \in DOMAIN response /\ "error" \in DOMAIN response)
       /\ "data" \in DOMAIN response => response.success
       /\ "error" \in DOMAIN response => ~response.success

C10_Witness ==
  /\ IsCreate /\ Failed(response)
  /\ "error" \in DOMAIN response
  /\ "data" \notin DOMAIN response

\* C11: createItem never throws: whatever the body and whatever the raw type
\* of its name, the call returns an envelope.  Line 84 calls .trim() on any
\* truthy name, so a name that is a number other than 0 raises a TypeError.
C11_NeverThrows ==
  IsCreate => IsEnvelope(response)

PairwiseDistinct(seq) ==
  \A i, j \in 1..Len(seq) : i # j => seq[i] # seq[j]

\* C12: with a generator that never repeats, the ids returned by successful
\* createItem calls are pairwise distinct, the keys of the collection are
\* unique, and every key maps to the item that carries it as its id.
C12_IdsUnique ==
  /\ PairwiseDistinct(returned)
  /\ PairwiseDistinct([i \in 1..Len(items) |-> items[i].key])
  /\ \A i \in 1..Len(items) : items[i].value.id = items[i].key

\* two ids returned, both stored and listed
C12_Witness ==
  /\ Len(returned) = 2
  /\ Len(items) = 2
  /\ lastOp = "getItems"

\* C13: names need not be unique: a createItem call with a valid name that a
\* stored item already has succeeds, returns an id other than that item's,
\* and both items are in the collection afterwards.
C13_DuplicateNamesAllowed ==
  [][(lastOp' = "createItem" /\ items # <<>> /\ HasStringName(lastBody'))
       => \A i \in 1..Len(items) :
            (/\ IsStripped(items[i].value.name, lastBody'.name.v)
             /\ Length(items[i].value.name) \in 1..100)
              => /\ Succeeded(response')
                 /\ response'.data.id # items[i].value.id
                 /\ response'.data.name = items[i].value.name
                 /\ \E j \in 1..Len(items') : items'[j] = items[i]
                 /\ \E j \in 1..Len(items') : items'[j].value = response'.data]_vars

C13_Witness ==
  /\ IsCreate /\ Succeeded(response)
  /\ Len(items) = 2
  /\ items[1].value.name = items[2].value.name
  /\ items[1].key # items[2].key

\* the elements of a are those of b, each as often
SameItems(a, b) ==
  /\ Len(a) = Len(b)
  /\ \A x \in {a[i] : i \in 1..Len(a)} \cup {b[i] : i \in 1..Len(b)} :
       Cardinality({i \in 1..Len(a) : a[i] = x}) = Cardinality({i \in 1..Len(b) : b[i] = x})

\* C14: listItems returns a success envelope whose data holds exactly the
\* items created by successful createItem calls since the last
\* resetCollection, each once, and changes neither the collection nor the log.
C14_ListReturnsCreated ==
  [][lastOp' = "getItems"
       => /\ DOMAIN response' = {"success", "data"}
          /\ response'.success
          /\ SameItems(response'.data, live)
          /\ PairwiseDistinct(response'.data)
          /\ items' = items /\ stdout' = stdout /\ stderr' = stderr]_vars

\* an item created before the last clear is not listed, the one created after is
C14_Witness ==
  /\ lastOp = "getItems"
  /\ Len(returned) = 2
  /\ Len(response.data) = 1
  /\ response.data[1].id = returned[2]

\* C15: two listItems calls with no successful createItem and no
\* resetCollection between them return equal collections, whatever failed
\* createItem and healthCheck calls come between.
C15_ListIdempotent ==
  [][(lastOp' = "getItems" /\ listed # None) => response'.data = listed.v]_vars

\* a listItems call answers as the one before a failed createItem did
C15_Witness ==
  /\ IsCreate /\ Failed(response)
  /\ listed # None
  /\ Len(listed.v) = 2

\* C16: resetCollection empties the collection from any state, writes no log
\* line and returns no value, and a listItems call right after it returns an
\* empty sequence.
C16_ResetEmpties ==
  [][/\ lastOp' = "clearItems"
          => /\ items' = <<>>
             /\ response' = [t |-> "undefined"]
             /\ stdout' = stdout /\ stderr' = stderr
     /\ (lastOp = "clearItems" /\ lastOp' = "getItems")
          => response' = [success |-> TRUE, data |-> <<>>]]_vars

\* the collection was cleared and then listed, after two items were created
C16_Witness ==
  /\ lastOp = "getItems"
  /\ response.data = <<>>
  /\ Len(returned) = 2
  /\ Len(stdout) = 2

\* C17: the collection starts empty; healthCheck, listItems and a createItem
\* that does not succeed leave it as it is, a successful createItem makes it
\* one larger and keeps what it held, resetCollection makes it empty.
C17_SizeLifecycle ==
  /\ items = <<>>
  /\ [][/\ lastOp' \in {"healthCheck", "getItems"} => items' = items
        /\ (lastOp' = "createItem" /\ ~Succeeded(response')) => items' = items
        /\ (lastOp' = "createItem" /\ Succeeded(response'))
             => /\ Len(items') = Len(items) + 1
                /\ \A i \in 1..Len(items) : \E j \in 1..Len(items') : items'[j] = items[i]
        /\ lastOp' = "clearItems" => Len(items') = 0]_vars

\* a second item was added and the first is still there
C17_Witness ==
  /\ lastOp = "healthCheck"
  /\ Len(items) = 2
  /\ [i \in 1..2 |-> items[i].key] = returned

\* C18: an item is immutable after creation: while it is in the collection
\* its id, name and createdAt stay what they were, whatever operations run
\* and whatever the caller does with the item createItem or listItems
\* returned.  The returned item is the stored object, so the caller's
\* assignment to it changes the collection.
C18_ItemsImmutable ==
  [][\A i \in 1..Len(items), j \in 1..Len(items') :
       items'[j].key = items[i].key => items'[j].value = items[i].value]_vars

\* C19: createdAt is a clock reading taken during the createItem call, not
\* before it is entered and not after it returns, and with a clock that does
\* not run backwards no item is older than one created before it.
C19_CreatedDuringCall ==
  [][(lastOp' = "createItem" /\ Succeeded(response'))
       => /\ now <= response'.data.createdAt
          /\ response'.data.createdAt <= now'
          /\ \A i \in 1..Len(items) :
               items[i].value.createdAt <= response'.data.createdAt]_vars

\* an item created after time has passed, beside an older one
C19_Witness ==
  /\ IsCreate /\ Succeeded(response)
  /\ Len(items) = 2
  /\ items[1].value.createdAt = 0
  /\ items[2].value.createdAt = 1

\* C20: healthCheck never fails and has no side effects: whatever the
\* collection holds, it returns success:true with data {status: "ok"} and no
\* error, and changes neither the collection nor the log.
C20_HealthCheckPure ==
  [][lastOp' = "healthCheck"
       => /\ response' = [success |-> TRUE, data |-> [status |-> "ok"]]
          /\ items' = items /\ stdout' = stdout /\ stderr' = stderr]_vars

C20_Witness ==
  /\ lastOp = "healthCheck"
  /\ Succeeded(response)
  /\ items # <<>>

LoggerOps == {"logger.debug", "logger.info", "logger.warn", "logger.error"}

\* the level a method of the logger stands for (lines 54-63)
LevelOf(op) ==
  CASE op = "logger.debug" -> "debug"
    [] op = "logger.info" -> "info"
    [] op = "logger.warn" -> "warn"
    [] op = "logger.error" -> "error"

\* the lines a step adds to a stream
Added(before, after) == SubSeq(after, Len(before) + 1, Len(after))

\* C21: each logger call writes exactly one line to exactly one stream:
\* logger.error to stderr and never to stdout; logger.debug, logger.info and
\* logger.warn to stdout and never to stderr.
C21_OneLineOneStream ==
  [][lastOp' \in LoggerOps
       => IF lastOp' = "logger.error"
          THEN /\ stdout' = stdout
               /\ Len(stderr') = Len(stderr) + 1
               /\ Added(stderr, stderr') = <<stderr'[Len(stderr')]>>
               /\ SubSeq(stderr', 1, Len(stderr)) = stderr
          ELSE /\ stderr' = stderr
               /\ Len(stdout') = Len(stdout) + 1
               /\ SubSeq(stdout', 1, Len(stdout)) = stdout]_vars

\* an error line on stderr after an info line on stdout
C21_Witness ==
  /\ lastOp = "logger.error"
  /\ Len(stderr) = 1
  /\ Len(stdout) = 1
  /\ stderr[1].json.level = Lit("error")
  /\ stdout[1].json.level # Lit("error")

\* C22: for every call logger.<level>(message, meta) the written entry has
\* the level of the method called, the message argument, a timestamp field,
\* and every key of meta with its value.
C22_EntryCarriesCall ==
  [][lastOp' \in LoggerOps
       => \A e \in {(Added(stdout, stdout') \o Added(stderr, stderr'))[1]} :
            /\ e.json.level = Lit(LevelOf(lastOp'))
            /\ e.json.message = Lit(lastBody'.message)
            /\ "timestamp" \in DOMAIN e.json
            /\ lastBody'.meta # Undefined
                 => \A k \in DOMAIN lastBody'.meta :
                      k \in DOMAIN e.json /\ e.json[k] = lastBody'.meta[k]]_vars

\* C23: a ValidationError constructed with (message, field) has that
\* message, the name "ValidationError" and that field, and the field
\* undefined (not null, not the empty string) when it is left out.
C23_ValidationErrorFields ==
  lastOp = "new ValidationError"
    => /\ err.message = lastBody[1]
       /\ err.name = "ValidationError"
       /\ err.field = (IF Len(lastBody) = 2 THEN lastBody[2] ELSE Undefined)
       /\ Len(lastBody) = 1 => err.field \notin {Null, Lit("")}

C23_Witness ==
  /\ lastOp = "new ValidationError"
  /\ Len(lastBody) = 1
  /\ err = [name |-> "ValidationError", message |-> MsgNameRequired, field |-> Undefined]

\* The tool call a hook document describes, read off the document itself
HasString(d, k) == d.t = "dict" /\ k \in DOMAIN d.f /\ d.f[k].t = "string"
IsWriteOrEdit(doc) ==
  HasString(doc, "tool_name") /\ doc.f.tool_name.v \in {<<"Write">>, <<"Edit">>}
\* the file a Write or Edit call names: file_path, or path where a tool names it so
HasTarget(doc) ==
  /\ doc.t = "dict" /\ "tool_input" \in DOMAIN doc.f
  /\ HasString(doc.f.tool_input, "file_path") \/ HasString(doc.f.tool_input, "path")
Target(doc) ==
  IF "file_path" \in DOMAIN doc.f.tool_input.f
  THEN doc.f.tool_input.f.file_path.v
  ELSE doc.f.tool_input.f.path.v
HasCommand(doc) ==
  doc.t = "dict" /\ "tool_input" \in DOMAIN doc.f /\ HasString(doc.f.tool_input, "command")

\* a path with a directory named dist on it
UnderDist(path) ==
  \E i \in 1..(Len(path) - 1) :
    path[i] = "dist" /\ path[i + 1] = "/" /\ (i = 1 \/ path[i - 1] = "/")

\* C24: the pre-tool hook exits 2 on every Write or Edit call whose target
\* file is under dist/ and exits 0 on every other tool call.
C24_DistGuard ==
  lastOp = "pre-tool.sh"
    => response.exit =
         (IF /\ IsWriteOrEdit(lastBody) /\ HasTarget(lastBody)
             /\ UnderDist(Target(lastBody))
          THEN 2 ELSE 0)

\* the words of a command line, and the subcommand git is given after its
\* options (-C takes a directory)
NotSpace(token) == token # " "
Words(command) == SelectSeq(command, NotSpace)

RECURSIVE Subcommand(_)
Subcommand(words) ==
  IF words = <<>> THEN ""
  ELSE IF Head(words) = "-C"
    THEN (IF Len(words) >= 2 THEN Subcommand(Tail(Tail(words))) ELSE "")
  ELSE Head(words)

PerformsCommit(command) ==
  LET words == Words(command)
  IN words # <<>> /\ words[1] = "git" /\ Subcommand(Tail(words)) = "commit"

\* C25: a Bash command that performs a git commit passes the pre-commit hook
\* (exit 0) only if npm run lint ran in the hook and exited 0, and is blocked
\* (exit 2) when lint fails; a command that is no git commit exits 0 and
\* lint is not run.
C25_LintGate ==
  (lastOp = "pre-commit.sh" /\ HasCommand(lastBody))
    => IF PerformsCommit(lastBody.f.tool_input.f.command.v)
       THEN /\ response.ran = <<"npm run lint">>
            /\ response.exit = (IF response.sh.LINT_EXIT = 0 THEN 0 ELSE 2)
       ELSE /\ response.ran = <<>>
            /\ response.exit = 0

\* C26: for every hook input the post-test hook terminates with exit code 0.
C26_AlwaysExitsZero ==
  lastOp = "post-test.sh" => ("exit" \in DOMAIN response /\ response.exit = 0)

\* the Lines column of the first "All files" row of a Jest report
LinesColumn(report) ==
  LET rows == SelectSeq(Split(report, "\n"), IsAllFilesRow)
  IN Squeeze(Split(rows[1], "|")[5])

HasCoverageTable(report) ==
  LET rows == SelectSeq(Split(report, "\n"), IsAllFilesRow)
  IN /\ rows # <<>>
     /\ Len(Split(rows[1], "|")) >= 5
     /\ \A k \in 2..5 : IsNumber(Squeeze(Split(rows[1], "|")[k]))

Says(stream, text) == \E i \in 1..Len(stream) : stream[i].text = text

\* C27: after npm test the post-test hook reports the Lines column of the
\* "All files" row and warns exactly when that line coverage is below 80;
\* for a command that is not npm test it emits nothing.
C27_ReportsLineCoverage ==
  (lastOp = "post-test.sh" /\ HasCommand(lastBody))
    => IF lastBody.f.tool_input.f.command.v = NpmTest
       THEN (HasString(lastBody, "tool_response") /\ HasCoverageTable(lastBody.f.tool_response.v))
              => /\ \E i \in 1..Len(stderr) :
                      /\ stderr[i].text = "[post-test] Global line coverage: "
                      /\ stderr[i].v = LinesColumn(lastBody.f.tool_response.v)
                 /\ Says(stderr, "[post-test] WARNING: Coverage is ")
                      <=> float(LinesColumn(lastBody.f.tool_response.v)) < 80
       ELSE ~Contains(lastBody.f.tool_input.f.command.v, NpmTest)
              => stdout = <<>> /\ stderr = <<>>

\* a document the hook cannot read its field from: no JSON, no object, or an
\* object without the field
LacksToolName(doc) == ~(doc.t = "dict" /\ "tool_name" \in DOMAIN doc.f)
LacksCommand(doc) ==
  ~(/\ doc.t = "dict" /\ "tool_input" \in DOMAIN doc.f
    /\ doc.f.tool_input.t = "dict" /\ "command" \in DOMAIN doc.f.tool_input.f)

\* C29: on input that is no JSON or lacks the expected fields, pre-tool.sh
\* takes the tool name to be "unknown" and pre-commit.sh takes the command to
\* be empty, and both exit 0; pre-commit.sh does not run lint.
C29_FailOpen ==
  /\ (lastOp = "pre-tool.sh" /\ LacksToolName(lastBody))
       => response.sh.TOOL_NAME = <<"unknown">> /\ response.exit = 0
  /\ (lastOp = "pre-commit.sh" /\ LacksCommand(lastBody))
       => response.sh.COMMAND = <<>> /\ response.exit = 0 /\ response.ran = <<>>

\* pre-commit.sh let a document through that is no JSON
C29_Witness ==
  /\ lastOp = "pre-commit.sh"
  /\ lastBody = Garbage
  /\ response = [exit |-> 0, ran |-> <<>>, sh |-> [COMMAND |-> <<>>]]

\* the "Item created" events among the lines of a stream
IsItemCreated(line) == line.json.message = Lit("Item created")
ItemCreatedEvents == SelectSeq(stdout \o stderr, IsItemCreated)

\* C28: at every operation boundary the number of "Item created" events
\* equals the number of successful createItem calls so far, every id in the
\* collection is carried by exactly one event, and every event carries the
\* id of an item that was stored.
C28_LogMatchesCreates ==
  /\ Len(ItemCreatedEvents) = Len(returned)
  /\ \A i \in 1..Len(items) :
       Cardinality({k \in 1..Len(ItemCreatedEvents) :
                      ItemCreatedEvents[k].json.id = Lit(items[i].key)}) = 1
  /\ \A k \in 1..Len(ItemCreatedEvents) :
       \E j \in 1..Len(returned) : ItemCreatedEvents[k].json.id = Lit(returned[j])

\* two events, one for an item cleared since and one for the item in the store
C28_Witness ==
  /\ Len(ItemCreatedEvents) = 2
  /\ Len(returned) = 2
  /\ Len(items) = 1
  /\ ItemCreatedEvents[2].json.id = Lit(items[1].key)
  /\ ItemCreatedEvents[1].json.id # Lit(items[1].key)

\* C30: listItems returns the current items in the order in which they were
\* created, and in that same order in every call until the next successful
\* createItem or resetCollection.
C30_ListInCreationOrder ==
  [][lastOp' = "getItems"
       => /\ Len(response'.data) = Len(live)
          /\ \A i \in 1..Len(live) : response'.data[i].id = live[i].id
          /\ \A i \in 1..(Len(live) - 1) :
               \E j, k \in 1..Len(returned) :
                 j < k /\ returned[j] = response'.data[i].id
                       /\ returned[k] = response'.data[i + 1].id
          /\ listed # None
               => \A i \in 1..Len(listed.v) : response'.data[i].id = listed.v[i].id]_vars

\* a listing of two items, the older one first though its id is the larger
C30_Witness ==
  /\ lastOp = "getItems"
  /\ Len(response.data) = 2
  /\ response.data[1].id = returned[1]
  /\ response.data[2].id = returned[2]
  /\ response.data[1].id > response.data[2].id
====
